---------------------------- MODULE Spec2Model ----------------------------
(***************************************************************************)
(* Tile acquisition and reconstruction engine of python-grabs:             *)
(*   grabs/resource.py  TiledImage.max_zoom                                *)
(*   grabs/untiler.py   _UntileQuery, Untiler.untile,                      *)
(*                      Untiler.__exec_multithread                         *)
(* One reconstruction request is followed from the call of untile to the   *)
(* settling of the future it returns.  Tile fetch tasks run on a           *)
(* ThreadPoolExecutor(max_workers); the orchestrating thread submits them, *)
(* waits, collects the results, composes the raster and leaves the         *)
(* executor's with-block.                                                  *)
(***************************************************************************)
EXTENDS Integers, Sequences, FiniteSets, TLC

VARIABLES
    image,        \* the TiledImage: [width, height, tile_size, overlap, format]
    zoom_level,   \* the requested zoom level
    max_workers,  \* Untiler.max_workers
    layout,       \* where the tile server puts the overlap border of a tile
    pc,           \* position of the request
    warned,       \* warnings.warn was called by tiles_urls
    plan,         \* locals of tiles_urls: zl_width, zl_height, n_columns, n_rows
    tiles_urls,   \* the dict returned by tiles_urls, in insertion order
    futures,      \* the list of futures of __exec_multithread, in submit order
    timed_out,    \* cf.wait returned because fetch_timeout elapsed
    tile_matrix,  \* indexes of the decoded tiles, in insertion order
    untiled,      \* the destination raster: pixel -> what was pasted there
    pastes,       \* one record per untiled.paste call
    outcome,      \* how __exec_multithread ended: returned value or raised exception
    overtaken,    \* history: a fetch task finished before one submitted earlier
    cache,        \* TiledImage.__cache: zoom level -> raster
    request,      \* arguments of the content call: zoom_level, callback, caching
    callbacks,    \* the callbacks handed to untile
    done_callbacks, \* future._done_callbacks of the future untile returns
    notified,     \* the executor thread of untile has run the future's callbacks
    invoked,      \* one record per call of a callback by propagate
    main_pc,      \* position of the thread that called content / untile
    answer,       \* what the last content call returned or raised
    calls,        \* number of content calls made
    completed     \* history: zoom level -> raster of the reconstructions that
                  \* ended well with caching on

clientVars == <<cache, request, callbacks, done_callbacks, notified, invoked,
                main_pc, answer, calls, completed>>

vars == <<image, zoom_level, max_workers, layout, pc, warned, plan, tiles_urls,
          futures, timed_out, tile_matrix, untiled, pastes, outcome, overtaken,
          clientVars>>

(***************************************************************************)
(* Bounds of the model.                                                    *)
(***************************************************************************)
MaxSide == 4        \* width, height in 1..MaxSide
MaxTileSize == 2    \* tile_size in 1..MaxTileSize
MaxOverlap == 1     \* overlap in 0..MaxOverlap
MaxPool == 2        \* max_workers in 1..MaxPool
MaxTiles == 4       \* reconstructions of at most MaxTiles tiles
ZoomSpan == 1       \* zoom_level in max_zoom - ZoomSpan .. max_zoom + 1
MaxCalls == 2       \* content calls on one TiledImage
MaxMemoSide == 2    \* width, height of the images content is called on
MaxMemoTiles == 2   \* tiles of those images at max_zoom

(***************************************************************************)
(* Program constants.                                                      *)
(***************************************************************************)
BASE_ZOOM == 10
MAX_WORKERS == 10
DEFAULT_FORMAT == "jpg"
MODES_FORMATS == [jpg |-> "RGB", jpeg |-> "RGB", png |-> "RGBA"]
Formats == {"jpg", "jpeg", "png"}

Max(a, b) == IF a >= b THEN a ELSE b
Min(a, b) == IF a <= b THEN a ELSE b

(***************************************************************************)
(* math.floor(math.log2(n / d)) for positive integers n, d: the exponent   *)
(* of the largest power of two that is at most n / d (negative when        *)
(* n < d).                                                                 *)
(***************************************************************************)
RECURSIVE Log2Down(_, _)
Log2Down(n, d) == IF n < 2 * d THEN 0 ELSE 1 + Log2Down(n, 2 * d)

RECURSIVE Log2Up(_, _)
Log2Up(n, d) == IF n >= d THEN 0 ELSE 1 + Log2Up(2 * n, d)

\* math.log2 rounded up instead of down
CeilLog2(n, d) == IF n > d THEN Log2Up(d, n) ELSE -Log2Down(d, n)

FloorLog2(n, d) == IF n >= d THEN Log2Down(n, d) ELSE -Log2Up(n, d)

\* max_zoom with the logarithm rounded up
max_zoom_ceil(im) == BASE_ZOOM + CeilLog2(Max(im.width, im.height), im.tile_size)

\* TiledImage.max_zoom
max_zoom(im) == BASE_ZOOM + FloorLog2(Max(im.width, im.height), im.tile_size)

\* int(a / 2 ** e): true division, then truncation (a >= 0, e >= 0)
IntTrueDiv(a, e) == a \div 2^e

\* _UntileQuery.width / height (the query exists only when zl <= max_zoom)
QueryWidth(im, zl) == IntTrueDiv(im.width, max_zoom(im) - zl)
QueryHeight(im, zl) == IntTrueDiv(im.height, max_zoom(im) - zl)

\* a / b rounded down instead of up
CeilDivFloor(a, b) == a \div b

\* math.ceil(a / b) for a >= 0, b > 0
CeilDiv(a, b) == IF a % b = 0 THEN a \div b ELSE (a \div b) + 1

\* url_template: the f-string '{root}/{zl}/{col}_{row}.{frmt}', kept as its parts
\* the characters a replacement field of an f-string gives for an integer
DigitChars == <<"0", "1", "2", "3", "4", "5", "6", "7", "8", "9">>

RECURSIVE FormatNat(_)
FormatNat(n) ==
    IF n < Len(DigitChars) THEN <<DigitChars[n + 1]>>
    ELSE FormatNat(n \div Len(DigitChars)) \o <<DigitChars[(n % Len(DigitChars)) + 1]>>

FormatInt(n) == IF n < 0 THEN <<"-">> \o FormatNat(-n) ELSE FormatNat(n)

\* the column and the row written one after the other, with nothing between
url_template_unseparated(root, zl, col, row, frmt) ==
    <<root, "/">> \o FormatInt(zl) \o <<"/">> \o FormatInt(col)
        \o FormatInt(row) \o <<".", frmt>>

\* f'{root}/{zl}/{col}_{row}.{frmt}' as a sequence of characters; the root
\* and the format are strings of the image, kept whole
url_template(root, zl, col, row, frmt) ==
    <<root, "/">> \o FormatInt(zl) \o <<"/">> \o FormatInt(col) \o <<"_">>
        \o FormatInt(row) \o <<".", frmt>>

\* the nested loops of tiles_urls: columns outside, rows inside
TileMatrixOf(im, zl, n_columns, n_rows) ==
    [k \in 1..(n_columns * n_rows) |->
        LET col_idx == (k - 1) \div n_rows
            row_idx == (k - 1) % n_rows
        IN  [idx |-> <<col_idx, row_idx>>,
             url |-> url_template("tiles_url", zl, col_idx, row_idx, im.format)]]

PlanOf(im, zl) ==
    LET zl_width == QueryWidth(im, zl)
        zl_height == QueryHeight(im, zl)
    IN  [width |-> zl_width,
         height |-> zl_height,
         n_columns |-> CeilDiv(zl_width, im.tile_size),
         n_rows |-> CeilDiv(zl_height, im.tile_size)]

NoPlan == [width |-> -1, height |-> -1, n_columns |-> -1, n_rows |-> -1]
NoOutcome == [kind |-> "none"]

(***************************************************************************)
(* The tile server.  The tile at (c, r) depicts the tile_size square at    *)
(* (c * tile_size, r * tile_size) of the scaled image, clipped to the      *)
(* image, plus an overlap border: on the sides shared with lower-indexed   *)
(* neighbours only ("lower_side"), or on every side shared with a          *)
(* neighbour, as Deep Zoom servers do ("both_sides").  The code reads the  *)
(* result as tile.width and tile.height.                                   *)
(***************************************************************************)
Layouts == {"lower_side", "both_sides"}

TileExtent(lay, im, size, k) ==
    LET core == Min(im.tile_size, size - k * im.tile_size)
        lower == Min(im.overlap, k * im.tile_size)
        upper == IF lay = "both_sides"
                 THEN Min(im.overlap, size - (k * im.tile_size + core))
                 ELSE 0
    IN  lower + core + upper

TileWidth(idx) == TileExtent(layout, image, plan.width, idx[1])
TileHeight(idx) == TileExtent(layout, image, plan.height, idx[2])

\* a pixel of the raster: nothing pasted, or pixel (p, q) of the tile at idx
Blank == <<>>
TilePixel(idx, p, q) == <<idx[1], idx[2], p, q>>

\* Image.new(mode, dims)
ImageNew(mode, dims) ==
    [mode |-> mode, width |-> dims[1], height |-> dims[2],
     px |-> [xy \in (0..(dims[1] - 1)) \X (0..(dims[2] - 1)) |-> Blank]]

NoImage == [mode |-> "", width |-> -1, height |-> -1, px |-> <<>>]

\* untiled.paste(tile, cursor): the whole tile, its corner at cursor,
\* clipped to the raster
Paste(im, idx, cursor) ==
    [im EXCEPT !.px =
        [xy \in DOMAIN im.px |->
            IF /\ cursor[1] <= xy[1] /\ xy[1] < cursor[1] + TileWidth(idx)
               /\ cursor[2] <= xy[2] /\ xy[2] < cursor[2] + TileHeight(idx)
            THEN TilePixel(idx, xy[1] - cursor[1], xy[2] - cursor[2])
            ELSE im.px[xy]]]

\* max([idx[1] for idx in tile_matrix.keys()]): the largest row index
RECURSIVE MaxRow(_)
MaxRow(tm) ==
    IF Len(tm) = 1 THEN tm[1][2] ELSE Max(tm[1][2], MaxRow(Tail(tm)))

\* the cursor never returned to the top of the next column
NextCursorNoReset(idx, cursor, max_rows_idx) ==
    <<IF idx[2] = max_rows_idx
      THEN cursor[1] + TileWidth(idx) - image.overlap ELSE cursor[1],
      cursor[2] + TileHeight(idx) - image.overlap>>

\* the cursor after the tile at idx was pasted at cursor
NextCursor(idx, cursor, max_rows_idx) ==
    LET w == TileWidth(idx)
        h == TileHeight(idx)
        y_offset == IF idx[2] < max_rows_idx
                    THEN cursor[2] + h - image.overlap ELSE 0
        x_offset == IF idx[2] = max_rows_idx
                    THEN cursor[1] + w - image.overlap ELSE cursor[1]
    IN  <<x_offset, y_offset>>

\* the paste loop over tile_matrix.items(), from the k-th item on
RECURSIVE PasteLoop(_, _, _, _, _)
PasteLoop(tm, k, cursor, im, log) ==
    IF k > Len(tm)
    THEN [image |-> im, pastes |-> log]
    ELSE PasteLoop(tm, k + 1, NextCursor(tm[k], cursor, MaxRow(tm)),
                   Paste(im, tm[k], cursor),
                   Append(log, [idx |-> tm[k], box |-> <<0, 0>>, at |-> cursor]))
(***************************************************************************)
(* The futures of the tile fetch tasks.  A future is queued (submitted,    *)
(* no worker thread took it yet), running (inside fetch_tile), or done:    *)
(* "ok" (fetch_tile returned bytes that decode), "garbage" (fetch_tile     *)
(* returned bytes that Image.open rejects) or "error" (requests.get or     *)
(* raise_for_status raised).                                               *)
(***************************************************************************)
Settled == {"ok", "garbage", "error"}

Tasks == 1..Len(futures)
Queued == {k \in Tasks : futures[k].state = "queued"}
Running == {k \in Tasks : futures[k].state = "running"}
Done == {k \in Tasks : futures[k].state \in Settled}
Raised == {k \in Tasks : futures[k].state = "error"}

\* one thread per work item, whatever max_workers is
WorkerAvailableAlways == TRUE

\* a ThreadPoolExecutor(max_workers) starts a thread only below max_workers
WorkerAvailable == Cardinality(Running) < max_workers

\* the check with >= in place of >
ZoomTooHighInclusive(im, zl) == zl >= max_zoom(im)

\* the check of _UntileQuery.__post_init__
ZoomTooHigh(im, zl) == zl > max_zoom(im)

Images ==
    [width : 1..MaxSide, height : 1..MaxSide, tile_size : 1..MaxTileSize,
     overlap : 0..MaxOverlap, format : {DEFAULT_FORMAT}]

ZoomLevels(im) == (max_zoom(im) - ZoomSpan)..(max_zoom(im) + 1)

NumTiles(im, zl) == PlanOf(im, zl).n_columns * PlanOf(im, zl).n_rows

Rest ==
    /\ pc = "untile"
    /\ warned = FALSE
    /\ plan = NoPlan
    /\ tiles_urls = <<>>
    /\ futures = <<>>
    /\ timed_out = FALSE
    /\ tile_matrix = <<>>
    /\ untiled = NoImage
    /\ pastes = <<>>
    /\ outcome = NoOutcome
    /\ overtaken = FALSE

\* no content call: untile is called directly, without callbacks
NoRequest == [zoom_level |-> <<>>, callback |-> "none", caching |-> FALSE]
NoAnswer == [kind |-> "none"]
EmptyCache == <<>>

ClientRest ==
    /\ cache = EmptyCache
    /\ request = NoRequest
    /\ callbacks = <<>>
    /\ done_callbacks = <<>>
    /\ notified = FALSE
    /\ invoked = <<>>
    /\ main_pc = "untile"
    /\ answer = NoAnswer
    /\ calls = 0
    /\ completed = <<>>

Init ==
    /\ image \in Images
    /\ zoom_level \in ZoomLevels(image)
    /\ zoom_level <= max_zoom(image) => NumTiles(image, zoom_level) <= MaxTiles
    /\ max_workers \in 1..MaxPool
    /\ layout \in Layouts
    /\ Rest
    /\ ClientRest

(***************************************************************************)
(* Untiler.untile: the query is built (its __post_init__ raises ValueError *)
(* when the zoom level exceeds max_zoom), then __exec_multithread is       *)
(* handed to an executor of one thread.                                    *)
(***************************************************************************)
NewQuery ==
    /\ pc = "untile"
    /\ IF ZoomTooHigh(image, zoom_level)
       THEN /\ pc' = "rejected"
            /\ outcome' = [kind |-> "raised", exc |-> "ValueError", at |-> "__post_init__"]
       ELSE /\ pc' = "exec"
            /\ UNCHANGED outcome
    /\ UNCHANGED <<image, zoom_level, max_workers, layout, warned, plan, tiles_urls,
                   futures, timed_out, tile_matrix, untiled, pastes>>
    /\ UNCHANGED clientVars
    /\ UNCHANGED overtaken

\* query.tiles_urls()
TilesUrls ==
    /\ pc = "exec"
    /\ plan' = PlanOf(image, zoom_level)
    /\ warned' = (plan'.width < 1 \/ plan'.height < 1)
    /\ tiles_urls' = TileMatrixOf(image, zoom_level, plan'.n_columns, plan'.n_rows)
    /\ pc' = "submit"
    /\ UNCHANGED <<image, zoom_level, max_workers, layout, futures, timed_out,
                   tile_matrix, untiled, pastes, outcome>>
    /\ UNCHANGED clientVars
    /\ UNCHANGED overtaken

\* one executor.submit(query.fetch_tile, idx, url) of the list comprehension
Submit ==
    /\ pc = "submit"
    /\ Len(futures) < Len(tiles_urls)
    /\ futures' = Append(futures,
                         [idx |-> tiles_urls[Len(futures) + 1].idx,
                          url |-> tiles_urls[Len(futures) + 1].url,
                          state |-> "queued"])
    /\ UNCHANGED <<image, zoom_level, max_workers, layout, pc, warned, plan,
                   tiles_urls, timed_out, tile_matrix, untiled, pastes, outcome>>
    /\ UNCHANGED clientVars
    /\ UNCHANGED overtaken

\* the list comprehension is over: cf.wait is entered
EnterWait ==
    /\ pc = "submit"
    /\ Len(futures) = Len(tiles_urls)
    /\ pc' = "wait"
    /\ UNCHANGED <<image, zoom_level, max_workers, layout, warned, plan, tiles_urls,
                   futures, timed_out, tile_matrix, untiled, pastes, outcome>>
    /\ UNCHANGED clientVars
    /\ UNCHANGED overtaken

\* a worker thread takes the oldest queued work item
StartTask ==
    /\ Queued # {}
    /\ WorkerAvailable
    /\ LET k == CHOOSE q \in Queued : \A o \in Queued : q <= o
       IN  futures' = [futures EXCEPT ![k].state = "running"]
    /\ UNCHANGED <<image, zoom_level, max_workers, layout, pc, warned, plan,
                   tiles_urls, timed_out, tile_matrix, untiled, pastes, outcome>>
    /\ UNCHANGED clientVars
    /\ UNCHANGED overtaken

\* fetch_tile returns or raises
FinishTask(k, how) ==
    /\ k \in Running
    /\ futures' = [futures EXCEPT ![k].state = how]
    /\ UNCHANGED <<image, zoom_level, max_workers, layout, pc, warned, plan,
                   tiles_urls, timed_out, tile_matrix, untiled, pastes, outcome>>
    /\ UNCHANGED clientVars
    /\ overtaken' = (overtaken \/ \E j \in 1..(k - 1) : futures[j].state \notin Settled)

\* cf.wait(futures, return_when=FIRST_EXCEPTION) returns: every future is
\* done, or one of them raised
WaitReturns ==
    /\ pc = "wait"
    /\ Done = Tasks \/ Raised # {}
    /\ pc' = "collect"
    /\ UNCHANGED <<image, zoom_level, max_workers, layout, warned, plan, tiles_urls,
                   futures, timed_out, tile_matrix, untiled, pastes, outcome>>
    /\ UNCHANGED clientVars
    /\ UNCHANGED overtaken

\* cf.wait(futures, timeout=fetch_timeout) returns with futures not done
WaitTimesOut ==
    /\ pc = "wait"
    /\ Done # Tasks
    /\ timed_out' = TRUE
    /\ pc' = "collect"
    /\ UNCHANGED <<image, zoom_level, max_workers, layout, warned, plan, tiles_urls,
                   futures, tile_matrix, untiled, pastes, outcome>>
    /\ UNCHANGED clientVars
    /\ UNCHANGED overtaken

\* the future the loop "for future in futures" is at
Current == Len(tile_matrix) + 1

\* one round of the loop: future.result() blocks until the future is done,
\* re-raises what fetch_tile raised, and Image.open raises on bytes it
\* cannot identify
Collect ==
    /\ pc = "collect"
    /\ Current <= Len(futures)
    /\ futures[Current].state \in Settled
    /\ CASE futures[Current].state = "ok" ->
              /\ tile_matrix' = Append(tile_matrix, futures[Current].idx)
              /\ UNCHANGED <<pc, outcome>>
         [] futures[Current].state = "error" ->
              /\ outcome' = [kind |-> "raised", exc |-> "HTTPError", at |-> "result"]
              /\ pc' = "shutdown"
              /\ UNCHANGED tile_matrix
         [] futures[Current].state = "garbage" ->
              /\ outcome' = [kind |-> "raised", exc |-> "UnidentifiedImageError",
                             at |-> "Image.open"]
              /\ pc' = "shutdown"
              /\ UNCHANGED tile_matrix
    /\ UNCHANGED <<image, zoom_level, max_workers, layout, warned, plan, tiles_urls,
                   futures, timed_out, untiled, pastes>>
    /\ UNCHANGED clientVars
    /\ UNCHANGED overtaken

\* what __exec_multithread returns: the raster alone
Returned(im) == [kind |-> "returned", value |-> [raster |-> im]]

\* the raster composed from the tiles collected so far, without waiting
\* for the futures the loop has not reached
ComposeEarly ==
    /\ pc = "collect"
    /\ IF tile_matrix = <<>>
       THEN /\ untiled' = ImageNew(MODES_FORMATS[image.format], <<plan.width, plan.height>>)
            /\ outcome' = [kind |-> "raised", exc |-> "ValueError", at |-> "max"]
            /\ UNCHANGED pastes
       ELSE LET r == PasteLoop(tile_matrix, 1, <<0, 0>>,
                               ImageNew(MODES_FORMATS[image.format],
                                        <<plan.width, plan.height>>),
                               <<>>)
            IN  /\ untiled' = r.image
                /\ pastes' = r.pastes
                /\ outcome' = [kind |-> "returned", value |-> [raster |-> r.image]]
    /\ pc' = "shutdown"
    /\ UNCHANGED <<image, zoom_level, max_workers, layout, warned, plan, tiles_urls,
                   futures, timed_out, tile_matrix, overtaken, clientVars>>

\* after the loop: Image.new, max over the row indexes (ValueError on an
\* empty tile_matrix), the paste loop, return untiled
Compose ==
    /\ pc = "collect"
    /\ Current > Len(futures)
    /\ IF tile_matrix = <<>>
       THEN /\ untiled' = ImageNew(MODES_FORMATS[image.format], <<plan.width, plan.height>>)
            /\ outcome' = [kind |-> "raised", exc |-> "ValueError", at |-> "max"]
            /\ UNCHANGED pastes
       ELSE LET r == PasteLoop(tile_matrix, 1, <<0, 0>>,
                               ImageNew(MODES_FORMATS[image.format],
                                        <<plan.width, plan.height>>),
                               <<>>)
            IN  /\ untiled' = r.image
                /\ pastes' = r.pastes
                /\ outcome' = Returned(r.image)
    /\ pc' = "shutdown"
    /\ UNCHANGED <<image, zoom_level, max_workers, layout, warned, plan, tiles_urls,
                   futures, timed_out, tile_matrix>>
    /\ UNCHANGED clientVars
    /\ UNCHANGED overtaken

\* shutdown(wait=False): the with-block is left without joining the workers
ShutdownNoWait ==
    /\ pc = "shutdown"
    /\ pc' = IF outcome.kind = "returned" THEN "done" ELSE "failed"
    /\ UNCHANGED <<image, zoom_level, max_workers, layout, warned, plan, tiles_urls,
                   futures, timed_out, tile_matrix, untiled, pastes, outcome,
                   overtaken, clientVars>>

\* leaving "with cf.ThreadPoolExecutor(...)": shutdown(wait=True) joins the
\* worker threads, which first run every work item still queued
Shutdown ==
    /\ pc = "shutdown"
    /\ Done = Tasks
    /\ pc' = IF outcome.kind = "returned" THEN "done" ELSE "failed"
    /\ UNCHANGED <<image, zoom_level, max_workers, layout, warned, plan, tiles_urls,
                   futures, timed_out, tile_matrix, untiled, pastes, outcome>>
    /\ UNCHANGED clientVars
    /\ UNCHANGED overtaken

Next ==
    \/ NewQuery
    \/ TilesUrls
    \/ Submit
    \/ EnterWait
    \/ StartTask
    \/ \E k \in Tasks : \E how \in Settled : FinishTask(k, how)
    \/ WaitReturns
    \/ WaitTimesOut
    \/ Collect
    \/ Compose
    \/ Shutdown

Spec == Init /\ [][Next]_vars

(***************************************************************************)
(* The grid planner alone (_UntileQuery and TiledImage.max_zoom), over a   *)
(* wider range of images, every format, and the 4000 x 3000 image of       *)
(* 256-pixel tiles.                                                        *)
(***************************************************************************)
Fixture ==
    [width |-> 4000, height |-> 3000, tile_size |-> 256, overlap |-> 1,
     format |-> DEFAULT_FORMAT]

PlanImages ==
    [width : 1..(2 * MaxSide), height : 1..(2 * MaxSide),
     tile_size : 1..(2 * MaxTileSize), overlap : {0}, format : Formats]
    \cup {Fixture}

PlanInit ==
    /\ image \in PlanImages
    /\ zoom_level \in ZoomLevels(image)
    /\ max_workers = 1
    /\ layout = "lower_side"
    /\ Rest
    /\ ClientRest

PlanNext == NewQuery \/ TilesUrls

PlanSpec == PlanInit /\ [][PlanNext]_vars

(***************************************************************************)
(* TiledImage.content on top of Untiler.untile: the zoom-level cache, the  *)
(* callbacks, and the two threads of untile (the caller, and the thread of *)
(* ThreadPoolExecutor(1) that runs __exec_multithread and then sets the    *)
(* future).                                                                *)
(***************************************************************************)
MemoImages ==
    {im \in Images :
        /\ im.width <= MaxMemoSide
        /\ im.height <= MaxMemoSide
        /\ im.overlap = 0
        /\ NumTiles(im, max_zoom(im)) <= MaxMemoTiles}

\* the zoom_level argument of content: <<>> is None
ZoomArgs(im) ==
    {<<>>, <<0>>} \cup {<<z>> : z \in (max_zoom(im) - 1)..(max_zoom(im) + 1)}

\* the callback argument of content: None, a callable that returns, a
\* callable that raises
CallbackArgs == {"none", "returns", "raises"}

\* no reconstruction in progress
Idle ==
    /\ pc = "idle"
    /\ warned = FALSE
    /\ plan = NoPlan
    /\ tiles_urls = <<>>
    /\ futures = <<>>
    /\ timed_out = FALSE
    /\ tile_matrix = <<>>
    /\ untiled = NoImage
    /\ pastes = <<>>
    /\ outcome = NoOutcome
    /\ overtaken = FALSE

MemoInit ==
    /\ image \in MemoImages
    /\ zoom_level = max_zoom(image)
    /\ max_workers = MAX_WORKERS
    /\ layout \in Layouts
    /\ Idle
    /\ cache = EmptyCache
    /\ request = NoRequest
    /\ callbacks = <<>>
    /\ done_callbacks = <<>>
    /\ notified = FALSE
    /\ invoked = <<>>
    /\ main_pc = "idle"
    /\ answer = NoAnswer
    /\ calls = 0
    /\ completed = <<>>

\* the state of the reconstruction variables when untile is entered (p =
\* "untile") or when content has returned (p = "idle")
ResetTo(p) ==
    /\ pc' = p
    /\ warned' = FALSE
    /\ plan' = NoPlan
    /\ tiles_urls' = <<>>
    /\ futures' = <<>>
    /\ timed_out' = FALSE
    /\ tile_matrix' = <<>>
    /\ untiled' = NoImage
    /\ pastes' = <<>>
    /\ outcome' = NoOutcome
    /\ overtaken' = FALSE

\* zoom_level or self.max_zoom: None and 0 are both false
ZoomOrMax(im, arg) == IF arg = <<>> \/ arg[1] = 0 THEN max_zoom(im) ELSE arg[1]

\* content up to the call of untile: the cache lookup and the callback list
ContentCall(arg, cb, caching) ==
    /\ main_pc = "idle"
    /\ calls < MaxCalls
    /\ request' = [zoom_level |-> arg, callback |-> cb, caching |-> caching]
    /\ LET zl == ZoomOrMax(image, arg)
       IN  IF caching /\ zl \in DOMAIN cache
           THEN /\ answer' = [kind |-> "returned", value |-> cache[zl]]
                /\ calls' = calls + 1
                /\ UNCHANGED <<zoom_level, pc, warned, plan, tiles_urls, futures,
                               timed_out, tile_matrix, untiled, pastes, outcome,
                               overtaken, callbacks, main_pc>>
           ELSE /\ zoom_level' = zl
                /\ callbacks' = (IF cb = "none" THEN <<>> ELSE <<cb>>)
                                   \o (IF caching THEN <<"__cache_callback">> ELSE <<>>)
                /\ ResetTo("untile")
                /\ main_pc' = "untile"
                /\ answer' = NoAnswer
                /\ UNCHANGED calls
    /\ done_callbacks' = <<>>
    /\ notified' = FALSE
    /\ invoked' = <<>>
    /\ UNCHANGED <<image, max_workers, layout, cache, completed>>

\* does the call cb(zoom_level, future) raise? __cache_callback calls
\* future.result(), which raises the exception of a failed reconstruction
Raises(cb) ==
    \/ cb = "raises"
    \/ cb = "__cache_callback" /\ outcome.kind # "returned"

\* propagate(future), run once the future is done: the calls it makes, in
\* order; the exception of a callback ends the loop (Future logs it)
RECURSIVE Propagate(_, _)
Propagate(cbs, k) ==
    IF k > Len(cbs) THEN <<>>
    ELSE <<[cb |-> cbs[k], zoom_level |-> zoom_level,
            done |-> pc \in {"done", "failed"}, raised |-> Raises(cbs[k])]>>
            \o (IF Raises(cbs[k]) THEN <<>> ELSE Propagate(cbs, k + 1))

\* __cache_callback storing the canvas whether or not the future has a result
CacheAfterAlways(calls_made) ==
    IF \E k \in 1..Len(calls_made) : calls_made[k].cb = "__cache_callback"
    THEN [z \in DOMAIN cache \cup {zoom_level} |->
            IF z = zoom_level THEN untiled ELSE cache[z]]
    ELSE cache

\* __cache_callback, when propagate reached it and the future has a result
CacheAfter(calls_made) ==
    IF \E k \in 1..Len(calls_made) :
          calls_made[k].cb = "__cache_callback" /\ ~calls_made[k].raised
    THEN [z \in DOMAIN cache \cup {zoom_level} |->
            IF z = zoom_level THEN outcome.value.raster ELSE cache[z]]
    ELSE cache

\* add_done_callback forgets the callback when the future is already done
AddDoneCallbackLost ==
    /\ main_pc = "untile"
    /\ pc \notin {"idle", "untile", "rejected"}
    /\ IF callbacks # <<>> /\ ~notified
       THEN done_callbacks' = <<"propagate">>
       ELSE UNCHANGED done_callbacks
    /\ main_pc' = "exiting"
    /\ UNCHANGED <<image, zoom_level, max_workers, layout, pc, warned, plan,
                   tiles_urls, futures, timed_out, tile_matrix, untiled, pastes,
                   outcome, overtaken, request, callbacks, notified, answer,
                   calls, completed, invoked, cache>>

\* the caller after executor.submit: "if callbacks:
\* future.add_done_callback(propagate)" registers propagate, or runs it at
\* once when the future is already done
AddDoneCallback ==
    /\ main_pc = "untile"
    /\ pc \notin {"idle", "untile", "rejected"}
    /\ IF callbacks = <<>>
       THEN UNCHANGED <<done_callbacks, invoked, cache>>
       ELSE IF notified
            THEN /\ invoked' = Propagate(callbacks, 1)
                 /\ cache' = CacheAfter(invoked')
                 /\ UNCHANGED done_callbacks
            ELSE /\ done_callbacks' = <<"propagate">>
                 /\ UNCHANGED <<invoked, cache>>
    /\ main_pc' = "exiting"
    /\ UNCHANGED <<image, zoom_level, max_workers, layout, pc, warned, plan,
                   tiles_urls, futures, timed_out, tile_matrix, untiled, pastes,
                   outcome, overtaken, request, callbacks, notified, answer,
                   calls, completed>>

\* the executor thread when __exec_multithread has returned or raised:
\* future.set_result / set_exception, then the callbacks registered so far
SetResult ==
    /\ pc \in {"done", "failed"}
    /\ main_pc \in {"untile", "exiting"}
    /\ ~notified
    /\ notified' = TRUE
    /\ IF done_callbacks # <<>>
       THEN /\ invoked' = Propagate(callbacks, 1)
            /\ cache' = CacheAfter(invoked')
       ELSE UNCHANGED <<invoked, cache>>
    /\ UNCHANGED <<image, zoom_level, max_workers, layout, pc, warned, plan,
                   tiles_urls, futures, timed_out, tile_matrix, untiled, pastes,
                   outcome, overtaken, request, callbacks, done_callbacks,
                   main_pc, answer, calls, completed>>

\* "return future" inside the with-block: ThreadPoolExecutor.__exit__ joins
\* the executor thread, then untile returns
UntileReturns ==
    /\ main_pc = "exiting"
    /\ notified
    /\ main_pc' = "result"
    /\ UNCHANGED <<image, zoom_level, max_workers, layout, pc, warned, plan,
                   tiles_urls, futures, timed_out, tile_matrix, untiled, pastes,
                   outcome, overtaken, cache, request, callbacks, done_callbacks,
                   notified, invoked, answer, calls, completed>>

\* the ValueError of _UntileQuery.__post_init__ leaves untile and content
ContentRaises ==
    /\ main_pc = "untile"
    /\ pc = "rejected"
    /\ answer' = [kind |-> "raised", exc |-> outcome.exc]
    /\ calls' = calls + 1
    /\ main_pc' = "idle"
    /\ ResetTo("idle")
    /\ UNCHANGED <<image, zoom_level, max_workers, layout, cache, request,
                   callbacks, done_callbacks, notified, invoked, completed>>

\* return future.result() if not callback else future
ContentReturns ==
    /\ main_pc = "result"
    /\ answer' = IF request.callback # "none"
                 THEN [kind |-> "future", outcome |-> outcome]
                 ELSE IF outcome.kind = "returned"
                      THEN [kind |-> "returned", value |-> outcome.value.raster]
                      ELSE [kind |-> "raised", exc |-> outcome.exc]
    /\ completed' = IF request.caching /\ outcome.kind = "returned"
                    THEN [z \in DOMAIN completed \cup {zoom_level} |->
                            IF z = zoom_level THEN outcome.value.raster
                            ELSE completed[z]]
                    ELSE completed
    /\ calls' = calls + 1
    /\ main_pc' = "idle"
    /\ ResetTo("idle")
    /\ UNCHANGED <<image, zoom_level, max_workers, layout, cache, request,
                   callbacks, done_callbacks, notified, invoked>>

MemoNext ==
    \/ \E arg \in ZoomArgs(image) : \E cb \in CallbackArgs :
          \E caching \in BOOLEAN : ContentCall(arg, cb, caching)
    \/ Next
    \/ AddDoneCallback
    \/ SetResult
    \/ UntileReturns
    \/ ContentRaises
    \/ ContentReturns

MemoSpec == MemoInit /\ [][MemoNext]_vars
(***************************************************************************)
(* Properties.                                                             *)
(***************************************************************************)
Failed == {k \in Tasks : futures[k].state \in {"error", "garbage"}}
Succeeded == {k \in Tasks : futures[k].state = "ok"}
Settling == pc \in {"done", "failed"}

\* the destination region of the tile at idx: the tile_size square at
\* (c * tile_size, r * tile_size), within the raster im
Region(im, idx) ==
    {xy \in DOMAIN im.px :
        /\ idx[1] * image.tile_size <= xy[1]
        /\ xy[1] < (idx[1] + 1) * image.tile_size
        /\ idx[2] * image.tile_size <= xy[2]
        /\ xy[2] < (idx[2] + 1) * image.tile_size}

\* the raster of the reconstruction in which every tile was fetched
AllSuccessRaster ==
    PasteLoop([k \in 1..Len(tiles_urls) |-> tiles_urls[k].idx], 1, <<0, 0>>,
              ImageNew(MODES_FORMATS[image.format], <<plan.width, plan.height>>),
              <<>>).image

\* C1: with a valid zoom level, a reconstruction in which some but not all
\* tile fetches or decodes failed still ends by returning a raster (nothing
\* is raised to the caller), the regions of the failed tiles left blank.
C1_PartialFailureStillReturns ==
    (Settling /\ Failed # {} /\ Succeeded # {})
        => /\ outcome.kind = "returned"
           /\ \A k \in Failed :
                 \A xy \in Region(outcome.value.raster, futures[k].idx) :
                    outcome.value.raster.px[xy] = Blank

\* C2: once fetch_timeout has elapsed the reconstruction waits on no task
\* that is still pending, and it ends by returning a result.
C2_NoWaitingAfterTimeout ==
    timed_out
        => /\ ~(pc = "collect" /\ Current <= Len(futures)
                  /\ futures[Current].state \notin Settled)
           /\ ~(pc = "shutdown" /\ Done # Tasks)
           /\ (Settling => outcome.kind = "returned")

\* C3: a zoom level above max_zoom is rejected with the invalid-zoom
\* ValueError before anything is planned, submitted or composed, and a zoom
\* level of at most max_zoom never gets that error.
C3_InvalidZoomRejectedBeforeFetch ==
    /\ (zoom_level > max_zoom(image) /\ pc # "untile")
          => /\ pc = "rejected"
             /\ outcome = [kind |-> "raised", exc |-> "ValueError",
                            at |-> "__post_init__"]
    /\ zoom_level > max_zoom(image)
          => /\ tiles_urls = <<>>
             /\ futures = <<>>
             /\ untiled = NoImage
    /\ zoom_level <= max_zoom(image)
          => /\ pc # "rejected"
             /\ ~(outcome.kind = "raised" /\ outcome.at = "__post_init__")

C3_Witness ==
    /\ pc = "rejected"
    /\ zoom_level = max_zoom(image) + 1
    /\ futures = <<>>
    /\ outcome.kind = "raised"

\* C4: at most max_workers fetch tasks are running at any instant, also when
\* the grid has more tiles than max_workers, and the tasks submitted are one
\* per tile coordinate of the grid: never two for one coordinate, none
\* outside the grid, and all of them once the submission is over.
C4_BoundedInFlightOnePerTile ==
    /\ Cardinality(Running) <= max_workers
    /\ \A k \in Tasks :
          /\ futures[k].idx[1] \in 0..(plan.n_columns - 1)
          /\ futures[k].idx[2] \in 0..(plan.n_rows - 1)
    /\ \A c \in 0..(plan.n_columns - 1) : \A r \in 0..(plan.n_rows - 1) :
          LET n == Cardinality({k \in Tasks : futures[k].idx = <<c, r>>})
          IN  /\ n <= 1
              /\ pc \in {"wait", "collect", "shutdown", "done", "failed"} => n = 1

C4_Witness ==
    /\ Len(futures) > max_workers
    /\ Cardinality(Running) = max_workers
    /\ Queued # {}
    /\ Len(futures) = plan.n_columns * plan.n_rows

\* C5: when the fetch of exactly one of the N tiles fails, the
\* reconstruction returns a success ratio of (N-1)/N and a raster that
\* agrees with the all-success raster on the region of every other tile.
C5_OneFailureRatioAndRegions ==
    (Settling /\ Len(futures) >= 2 /\ Cardinality(Raised) = 1
              /\ Cardinality(Succeeded) = Len(futures) - 1)
        => /\ outcome.kind = "returned"
           /\ "success_rate" \in DOMAIN outcome.value
           /\ outcome.value.success_rate = <<Len(futures) - 1, Len(futures)>>
           /\ \A k \in Succeeded :
                 \A xy \in Region(AllSuccessRaster, futures[k].idx) :
                    outcome.value.raster.px[xy] = AllSuccessRaster.px[xy]

\* C6: when every tile fetch succeeds, the reconstruction returns a raster
\* of exactly (scaled width, scaled height) pixels together with a success
\* ratio of 1.
C6_AllSuccessDimsAndRatio ==
    (Settling /\ Tasks # {} /\ Succeeded = Tasks)
        => /\ outcome.kind = "returned"
           /\ outcome.value.raster.width = QueryWidth(image, zoom_level)
           /\ outcome.value.raster.height = QueryHeight(image, zoom_level)
           /\ "success_rate" \in DOMAIN outcome.value
           /\ outcome.value.success_rate = <<1, 1>>

\* C7: every decoded tile at (c, r) is cropped by overlap on its left edge
\* only when c > 0 and on its top edge only when r > 0, and the cropped
\* region is pasted at (c * tile_size, r * tile_size): tile pixel
\* (overlapX + i, overlapY + j) is the raster's pixel
\* (c * tile_size + i, r * tile_size + j).
C7_EdgeAwareCropAndPaste ==
    pc = "done"
        => \A k \in 1..Len(pastes) :
             LET idx == pastes[k].idx
                 overlapX == IF idx[1] > 0 THEN image.overlap ELSE 0
                 overlapY == IF idx[2] > 0 THEN image.overlap ELSE 0
             IN  /\ pastes[k].box = <<overlapX, overlapY>>
                 /\ pastes[k].at = <<idx[1] * image.tile_size,
                                      idx[2] * image.tile_size>>
                 /\ \A xy \in Region(untiled, idx) :
                       untiled.px[xy] =
                           TilePixel(idx,
                                     overlapX + xy[1] - idx[1] * image.tile_size,
                                     overlapY + xy[2] - idx[2] * image.tile_size)

\* C8: for every image and zoom level of at most max_zoom, with
\* e = max_zoom - zoom_level, the planned width is floor(width / 2^e), the
\* planned height is floor(height / 2^e), and the numbers of columns and
\* rows are ceil(planned width / tile_size) and ceil(planned height /
\* tile_size), each stated by the two inequalities that define floor and ceil.
C8_GridDimensions ==
    pc = "submit"
        => LET e == max_zoom(image) - zoom_level
           IN  /\ zoom_level <= max_zoom(image)
               /\ plan.width * 2^e <= image.width
               /\ image.width < (plan.width + 1) * 2^e
               /\ plan.height * 2^e <= image.height
               /\ image.height < (plan.height + 1) * 2^e
               /\ (plan.n_columns - 1) * image.tile_size < plan.width
               /\ plan.width <= plan.n_columns * image.tile_size
               /\ (plan.n_rows - 1) * image.tile_size < plan.height
               /\ plan.height <= plan.n_rows * image.tile_size

C8_Witness ==
    /\ pc = "submit"
    /\ zoom_level < max_zoom(image)
    /\ image.width % 2 = 1
    /\ plan.width > 0
    /\ plan.width % image.tile_size # 0
    /\ plan.n_columns > 1

\* C9 as stated: the 4000 x 3000 image of 256-pixel tiles has max_zoom 14,
\* and planning it at zoom level 14 succeeds with a 4000 x 3000 plan of
\* 16 columns and 12 rows.
C9_FixtureAtZoom14 ==
    image = Fixture
        => /\ max_zoom(image) = 14
           /\ (zoom_level = 14 /\ pc \notin {"untile", "exec"})
                 => /\ pc = "submit"
                    /\ plan = [width |-> 4000, height |-> 3000,
                                n_columns |-> 16, n_rows |-> 12]

\* C9 amended: the 4000 x 3000 image of 256-pixel tiles has max_zoom 13;
\* planning it at zoom level 13 succeeds with a 4000 x 3000 plan of 16
\* columns and 12 rows, and planning it at zoom level 14 is rejected.
C9_FixtureAtZoom13 ==
    image = Fixture
        => /\ max_zoom(image) = 13
           /\ (zoom_level = 13 /\ pc \notin {"untile", "exec"})
                 => /\ pc = "submit"
                    /\ plan = [width |-> 4000, height |-> 3000,
                                n_columns |-> 16, n_rows |-> 12]
                    /\ Len(tiles_urls) = 16 * 12
           /\ (zoom_level = 14 /\ pc # "untile") => pc = "rejected"
           /\ zoom_level <= 12 => pc # "rejected"

C9_Witness ==
    /\ image = Fixture
    /\ zoom_level = 13
    /\ pc = "submit"
    /\ plan.n_columns = 16
    /\ plan.n_rows = 12

\* C10: when the scaled width or height is below 1, the reconstruction
\* warns and still completes by returning a (possibly empty) raster.
C10_DegenerateGridStillReturns ==
    (Settling /\ (plan.width < 1 \/ plan.height < 1))
        => /\ warned
           /\ outcome.kind = "returned"

\* the states of a reconstruction request
Phase ==
    CASE pc \in {"untile", "exec", "rejected"} -> "Planning"
      [] pc \in {"submit", "wait", "collect"} -> "Fetching"
      [] pc = "shutdown" ->
            IF outcome.kind = "returned" \/ outcome.at = "max"
            THEN "Compositing" ELSE "Fetching"
      [] pc = "done" -> "Done"
      [] pc = "failed" -> "Failed"

PhaseRank(ph) ==
    CASE ph = "Planning" -> 0
      [] ph = "Fetching" -> 1
      [] ph = "Compositing" -> 2
      [] ph = "Done" -> 3
      [] ph = "Failed" -> 4

\* C11: a request goes through Planning, Fetching, Compositing, Done in that
\* order, one state at a time; with an invalid zoom it ends in Planning;
\* with a valid zoom it ends nowhere but in Done, also after the timeout,
\* when it goes on to Compositing without waiting for the pending tasks.
C11_PlanningFetchingCompositingDone ==
    [][/\ Phase' # Phase => PhaseRank(Phase') = PhaseRank(Phase) + 1
       /\ zoom_level > max_zoom(image) => Phase' = "Planning"
       /\ zoom_level <= max_zoom(image) => pc' \notin {"rejected", "failed"}
       /\ (timed_out' /\ pc' = "collect") =>
              \A k \in 1..Len(futures') :
                 k > Len(tile_matrix') => futures'[k].state \in Settled]_vars

\* C12: a failed tile aborts no sibling: the reconstruction settles only
\* when every tile of the grid was submitted and every submitted task has
\* run to its end, whatever the order in which the tasks finish.
C12_SiblingsRunToCompletion ==
    Settling
        => /\ Len(futures) = Len(tiles_urls)
           /\ \A k \in Tasks : futures[k].state \in Settled

C12_Witness ==
    /\ pc = "failed"
    /\ overtaken
    /\ futures[1].state = "error"
    /\ \E k \in Tasks : k > 1 /\ futures[k].state = "ok"
    /\ \E k \in Tasks : k > 1 /\ futures[k].state = "garbage"

\* the sum of (extent - overlap) over the tiles 0 .. k-1 of a row or column
RECURSIVE Advance(_, _)
Advance(size, k) ==
    IF k = 0 THEN 0
    ELSE Advance(size, k - 1) + TileExtent(layout, image, size, k - 1) - image.overlap

\* C13: whatever the order in which the fetch tasks complete and whatever
\* max_workers is, the raster of a reconstruction that ends well is the one
\* computed from the grid alone: tile k of the grid order is pasted k-th, at
\* a position that depends on its (column, row) only.
C13_RasterIndependentOfCompletionOrder ==
    pc = "done"
        => /\ Len(pastes) = Len(tiles_urls)
           /\ \A k \in 1..Len(pastes) :
                 /\ pastes[k].idx = tiles_urls[k].idx
                 /\ pastes[k].at = <<Advance(plan.width, pastes[k].idx[1]),
                                      Advance(plan.height, pastes[k].idx[2])>>
           /\ untiled = AllSuccessRaster
           /\ outcome.value.raster = untiled

C13_Witness ==
    /\ pc = "done"
    /\ overtaken
    /\ max_workers > 1
    /\ plan.n_columns > 1
    /\ plan.n_rows > 1
    /\ Len(pastes) = plan.n_columns * plan.n_rows

\* C14: the raster is created and written by the compositing step only,
\* and that step is taken only when every tile was submitted and no fetch
\* task is queued or running.
C14_CanvasWrittenAfterAllSettled ==
    [][(untiled' # untiled \/ pastes' # pastes)
          => /\ pc = "collect" /\ pc' = "shutdown"
             /\ Len(futures) = Len(tiles_urls)
             /\ \A k \in Tasks : futures[k].state \in Settled]_vars

C14_Witness ==
    /\ pc = "done"
    /\ timed_out
    /\ overtaken
    /\ Len(pastes) > 1

\* reading a decimal numeral back
IsNumeral(s) ==
    /\ Len(s) >= 1
    /\ \A i \in 1..Len(s) : \E d \in 1..Len(DigitChars) : DigitChars[d] = s[i]
    /\ Len(s) > 1 => s[1] # "0"

RECURSIVE NumeralValue(_)
NumeralValue(s) ==
    IF s = <<>> THEN 0
    ELSE 10 * NumeralValue(SubSeq(s, 1, Len(s) - 1))
            + ((CHOOSE d \in 1..Len(DigitChars) : DigitChars[d] = s[Len(s)]) - 1)

Denotes(s, n) ==
    IF n < 0
    THEN Len(s) >= 2 /\ s[1] = "-" /\ IsNumeral(Tail(s)) /\ NumeralValue(Tail(s)) = -n
    ELSE IsNumeral(s) /\ NumeralValue(s) = n

\* u reads root "/" zl "/" col "_" row "." frmt
IsTileUrl(u, root, zl, col, row, frmt) ==
    \E a, b, c \in 1..Len(u) :
        /\ Len(u) = a + b + c + 6
        /\ u[1] = root
        /\ u[2] = "/"
        /\ Denotes(SubSeq(u, 3, a + 2), zl)
        /\ u[a + 3] = "/"
        /\ Denotes(SubSeq(u, a + 4, a + b + 3), col)
        /\ u[a + b + 4] = "_"
        /\ Denotes(SubSeq(u, a + b + 5, a + b + c + 4), row)
        /\ u[a + b + c + 5] = "."
        /\ u[a + b + c + 6] = frmt

\* C16: the plan holds one URL for every coordinate (col, row) of the grid
\* and for no other, the URL of (col, row) reads
\* {tiles_url}/{zoom_level}/{col}_{row}.{format}, and two coordinates never
\* get the same URL.
C16_OneUrlPerCoordinate ==
    pc \notin {"untile", "exec", "rejected"}
        => /\ Len(tiles_urls) = plan.n_columns * plan.n_rows
           /\ {tiles_urls[k].idx : k \in 1..Len(tiles_urls)}
                 = (0..(plan.n_columns - 1)) \X (0..(plan.n_rows - 1))
           /\ \A k \in 1..Len(tiles_urls) :
                 IsTileUrl(tiles_urls[k].url, "tiles_url", zoom_level,
                           tiles_urls[k].idx[1], tiles_urls[k].idx[2], image.format)
           /\ \A j, k \in 1..Len(tiles_urls) :
                 j # k => /\ tiles_urls[j].idx # tiles_urls[k].idx
                          /\ tiles_urls[j].url # tiles_urls[k].url

C16_Witness ==
    /\ pc = "submit"
    /\ image = Fixture
    /\ \E j, k \in 1..Len(tiles_urls) :
          /\ tiles_urls[j].idx = <<1, 11>>
          /\ tiles_urls[k].idx = <<11, 1>>

\* C18: max_zoom is 10 + floor(log2(max(width, height) / tile_size)): with
\* k = max_zoom - 10, 2^k <= max(width, height) / tile_size < 2^(k+1).
C18_MaxZoomFormula ==
    LET k == max_zoom(image) - 10
        m == Max(image.width, image.height)
        t == image.tile_size
    IN  IF k >= 0
        THEN t * 2^k <= m /\ m < t * 2^(k + 1)
        ELSE t <= m * 2^(-k) /\ m * 2^(-k - 1) < t

C18_Witness ==
    /\ pc = "rejected"
    /\ 2 * Max(image.width, image.height) < image.tile_size
    /\ zoom_level = max_zoom(image) + 1

\* C19: zoom level 10 is the minimum: whenever tile_size, width and height
\* are positive, max_zoom is at least 10, so that the zoom levels from 10 to
\* max_zoom are never an empty range.
C19_MaxZoomAtLeastBase ==
    (pc # "untile" /\ image.tile_size > 0 /\ image.width > 0 /\ image.height > 0)
        => /\ max_zoom(image) >= 10
           /\ 10..max_zoom(image) # {}

\* the zoom level the caller of content asked for: max_zoom when the
\* argument is left unset, the argument otherwise
RequestedZoom(im, arg) == IF arg = <<>> THEN max_zoom(im) ELSE arg[1]

\* C15: with caching on, once a reconstruction at zoom level z has ended
\* well, a later content call for zoom level z returns that raster without
\* entering untile; and a call answered without entering untile is answered
\* with the raster of its own zoom level, never with that of another one.
C15_MemoServesSameZoomOnly ==
    [][(/\ main_pc = "idle"
        /\ calls' # calls \/ main_pc' # "idle"
        /\ request'.caching)
          => LET z == RequestedZoom(image, request'.zoom_level)
                 served == main_pc' = "idle" /\ calls' = calls + 1
             IN  /\ z \in DOMAIN completed
                        => served /\ answer' = [kind |-> "returned",
                                                value |-> completed[z]]
                 /\ served
                        => /\ z \in DOMAIN completed
                           /\ answer'.value = completed[z]]_vars

\* C17: the zoom level of the reconstruction is max_zoom when the caller
\* leaves zoom_level unset, and the caller's value whenever an integer is
\* supplied.
C17_ZoomUsedIsTheCallersValue ==
    main_pc # "idle" => zoom_level = RequestedZoom(image, request.zoom_level)

\* C20: when untile returns, the future is done, and every callback of the
\* list has been called once with (zoom_level, future), in list order.
C20_EveryCallbackOnceBeforeReturn ==
    main_pc = "result"
        => /\ notified
           /\ pc \in {"done", "failed"}
           /\ Len(invoked) = Len(callbacks)
           /\ \A k \in 1..Len(invoked) :
                 /\ invoked[k].cb = callbacks[k]
                 /\ invoked[k].zoom_level = zoom_level
                 /\ invoked[k].done

\* C20, amended: when untile returns, the future is done; the callbacks
\* called are a prefix of the list, each called once with (zoom_level,
\* future) on the done future, in list order; the prefix is the whole list
\* unless a callback raised, and then it ends with the first one that did.
C20_CallbacksOnceUpToFirstRaise ==
    main_pc = "result"
        => /\ notified
           /\ pc \in {"done", "failed"}
           /\ Len(invoked) <= Len(callbacks)
           /\ \A k \in 1..Len(invoked) :
                 /\ invoked[k].cb = callbacks[k]
                 /\ invoked[k].zoom_level = zoom_level
                 /\ invoked[k].done
                 /\ k < Len(invoked) => ~Raises(callbacks[k])
           /\ Len(invoked) < Len(callbacks)
                 => Len(invoked) >= 1 /\ Raises(callbacks[Len(invoked)])

C20_Witness ==
    /\ main_pc = "result"
    /\ callbacks = <<"raises", "__cache_callback">>
    /\ Len(invoked) = 1
    /\ done_callbacks = <<>>
    /\ pc = "done"

\* C21: after any sequence of content calls, the cache entry of a zoom level
\* is absent or is the raster returned by a reconstruction at that zoom
\* level that ended well: an entry is written only by a reconstruction that
\* returned, with caching on, under its own zoom level and with its own
\* raster, the other entries being left as they were; a call with caching
\* off is never answered from the cache and never changes it.
C21_MemoHoldsOnlySuccessfulRasters ==
    [][/\ cache' # cache
            => /\ request.caching
               /\ pc = "done"
               /\ outcome.kind = "returned"
               /\ zoom_level <= max_zoom(image)
               /\ DOMAIN cache' = DOMAIN cache \cup {zoom_level}
               /\ cache'[zoom_level] = outcome.value.raster
               /\ \A z \in DOMAIN cache : z # zoom_level => cache'[z] = cache[z]
       /\ \A z \in DOMAIN cache' :
             /\ cache'[z] # NoImage
             /\ cache'[z].width = QueryWidth(image, z)
             /\ cache'[z].height = QueryHeight(image, z)
       /\ main_pc' = "idle"
            => \A z \in DOMAIN cache' :
                  z \in DOMAIN completed' /\ cache'[z] = completed'[z]
       /\ (main_pc = "idle" /\ ~request'.caching
              /\ (calls' # calls \/ main_pc' # "idle"))
            => main_pc' = "untile" /\ calls' = calls /\ answer' = NoAnswer]_vars

C21_Witness ==
    /\ main_pc = "result"
    /\ pc = "failed"
    /\ cache # EmptyCache
    /\ zoom_level \notin DOMAIN cache
    /\ invoked # <<>>
    /\ invoked[Len(invoked)].cb = "__cache_callback"
    /\ invoked[Len(invoked)].raised
=============================================================================
